---- MODULE Spec2Model ----
(***************************************************************************)
(* Window / tray lifecycle and bridge commands of the Axie Studio desktop  *)
(* shell (src-tauri/src/main.rs) and its backend API helpers               *)
(* (src-tauri/src/api.rs).                                                 *)
(*                                                                         *)
(* The host runtime (window registry, tray, shell, HTTP client) is the     *)
(* environment: every host call that returns a Result is modelled with a   *)
(* nondeterministic Ok / Err outcome, and the handlers are translated      *)
(* statement by statement, `unwrap()` and `?` included.                    *)
(***************************************************************************)
EXTENDS Integers, Sequences, FiniteSets, TLC

VARIABLES
    proc,       \* "starting" | "running" | "exited" (process::exit) | "panicked"
    win,        \* window label -> state in the host's window registry
    focus,      \* label of the window that last obtained focus, or "none"
    trayMenu,   \* the menu attached to the tray icon (sequence of item ids)
    last,       \* the last handled event / command and what it returned
    log,        \* sequence of logged events
    health      \* check_backend_health invocations: slot -> request lifecycle

vars == <<proc, win, focus, trayMenu, last, log, health>>
lifecycleVars == <<proc, win, focus, trayMenu, last, log>>

----------------------------------------------------------------------------
(* Windows *)

WindowNames == {"main", "splashscreen"}

LiveStates == {"Uninitialized", "Shown", "Hidden"}

WindowStates == LiveStates \cup {"Absent", "Closed"}

\* app.get_window(label): Some(window) iff the registry holds a live window
get_window(label) == win[label] \in LiveStates

\* mutant of show: showing a visible window hides it (a toggle)
show_toggles(w, label, ok) ==
    IF ok
    THEN [w EXCEPT ![label] = IF w[label] = "Shown" THEN "Hidden" ELSE "Shown"]
    ELSE w

\* window.show(): on Ok the window becomes visible, on Err nothing changes
show(w, label, ok) == IF ok THEN [w EXCEPT ![label] = "Shown"] ELSE w

\* mutant of hide: hiding destroys the window (the registry drops it)
hide_and_drop(w, label, ok) == IF ok THEN [w EXCEPT ![label] = "Closed"] ELSE w

\* window.hide(): on Ok the window becomes hidden (it stays in the registry)
hide(w, label, ok) == IF ok THEN [w EXCEPT ![label] = "Hidden"] ELSE w

\* window.set_focus(): on Ok the window obtains focus
set_focus(f, label, ok) == IF ok THEN label ELSE f

----------------------------------------------------------------------------
(* What a handler returned *)

NoVal == "-"

Ret(kind, val) == [kind |-> kind, val |-> val]

Unit == Ret("unit", NoVal)
Ok(val) == Ret("Ok", val)
Err(msg) == Ret("Err", msg)
Panic == Ret("panic", NoVal)
Exit == Ret("exit", NoVal)

Handled(ev, arg, ret, prevented) ==
    [ev |-> ev, arg |-> arg, ret |-> ret, prevented |-> prevented]

----------------------------------------------------------------------------
(* Tray *)

\* mutant of create_system_tray: the items attached in the order they are created
create_system_tray_creation_order == <<"quit", "show", "hide", "separator">>

\* let tray_menu = SystemTrayMenu::new().add_item(show).add_item(hide)
\*     .add_native_item(SystemTrayMenuItem::Separator).add_item(quit);
create_system_tray == <<"show", "hide", "separator", "quit">>

MenuIds == {"quit", "show", "hide"}

TrayEvents ==
    [kind : {"LeftClick", "RightClick", "DoubleClick"}, id : {NoVal}]
    \cup [kind : {"MenuItemClick"}, id : MenuIds \cup {"about"}]

\* the arms of handle_system_tray_event that show the main window:
\*   if let Some(window) = app.get_window("main") {
\*       let _ = window.show(); let _ = window.set_focus(); }
TrayShowMain(event, showOk, focusOk) ==
    /\ win' = IF get_window("main") THEN show(win, "main", showOk) ELSE win
    /\ focus' = IF get_window("main") THEN set_focus(focus, "main", focusOk) ELSE focus
    /\ last' = Handled(event.kind, event.id, Unit, FALSE)
    /\ UNCHANGED <<proc, trayMenu, log, health>>

\* mutant of TrayHideMain: hides every live window, not only "main"
TrayHideEvery(event, hideOk) ==
    /\ win' = [l \in WindowNames |-> IF get_window(l) /\ hideOk THEN "Hidden" ELSE win[l]]
    /\ last' = Handled(event.kind, event.id, Unit, FALSE)
    /\ UNCHANGED <<proc, focus, trayMenu, log, health>>

\*   "hide" => if let Some(window) = app.get_window("main") { let _ = window.hide(); }
TrayHideMain(event, hideOk) ==
    /\ win' = IF get_window("main") THEN hide(win, "main", hideOk) ELSE win
    /\ last' = Handled(event.kind, event.id, Unit, FALSE)
    /\ UNCHANGED <<proc, focus, trayMenu, log, health>>

\* mutant of TrayQuit: the arm returns without exiting
TrayQuitReturns(event) ==
    /\ last' = Handled(event.kind, event.id, Unit, FALSE)
    /\ UNCHANGED <<proc, win, focus, trayMenu, log, health>>

\*   "quit" => std::process::exit(0)
TrayQuit(event) ==
    /\ proc' = "exited"
    /\ last' = Handled(event.kind, event.id, Exit, FALSE)
    /\ UNCHANGED <<win, focus, trayMenu, log, health>>

\* mutant of TrayIgnore: any other tray event shows the main window
TrayOtherShows(event) ==
    /\ win' = IF get_window("main") THEN show(win, "main", TRUE) ELSE win
    /\ last' = Handled(event.kind, event.id, Unit, FALSE)
    /\ UNCHANGED <<proc, focus, trayMenu, log, health>>

\*   _ => {}
TrayIgnore(event) ==
    /\ last' = Handled(event.kind, event.id, Unit, FALSE)
    /\ UNCHANGED <<proc, win, focus, trayMenu, log, health>>

handle_system_tray_event(event, showOk, focusOk, hideOk) ==
    /\ proc = "running"
    /\ CASE event.kind = "LeftClick" -> TrayShowMain(event, showOk, focusOk)
         [] event.kind = "MenuItemClick" /\ event.id = "quit" -> TrayQuit(event)
         [] event.kind = "MenuItemClick" /\ event.id = "show" ->
                TrayShowMain(event, showOk, focusOk)
         [] event.kind = "MenuItemClick" /\ event.id = "hide" ->
                TrayHideMain(event, hideOk)
         [] OTHER -> TrayIgnore(event)

----------------------------------------------------------------------------
(* main: setup closure and window-event closure *)

\* mutant of setup: the closure returns Ok(()) without calling window.show()
setup_without_show(macos, styleOk, showOk) ==
    /\ proc = "starting"
    /\ IF get_window("main") /\ (macos => styleOk)
       THEN /\ proc' = "running"
            /\ last' = Handled("setup", "main", Ok(NoVal), FALSE)
       ELSE /\ proc' = "panicked"
            /\ last' = Handled("setup", "main", Panic, FALSE)
    /\ UNCHANGED <<win, focus, trayMenu, log, health>>

\* .setup(|app| { let window = app.get_window("main").unwrap();
\*                #[cfg(target_os = "macos")] window.set_title_bar_style(..).unwrap();
\*                window.show().unwrap(); Ok(()) })
setup(macos, styleOk, showOk) ==
    /\ proc = "starting"
    /\ IF get_window("main") /\ (macos => styleOk) /\ showOk
       THEN /\ proc' = "running"
            /\ win' = show(win, "main", TRUE)
            /\ last' = Handled("setup", "main", Ok(NoVal), FALSE)
       ELSE /\ proc' = "panicked"
            /\ win' = win
            /\ last' = Handled("setup", "main", Panic, FALSE)
    /\ UNCHANGED <<focus, trayMenu, log, health>>

\* .on_window_event(|event| match event.event() {
\*     WindowEvent::CloseRequested { api, .. } => {
\*         event.window().hide().unwrap(); api.prevent_close(); }
\*     _ => {} })
on_window_event(label, kind, hideOk) ==
    /\ proc = "running"
    /\ get_window(label)
    /\ IF kind = "CloseRequested"
       THEN IF hideOk
            THEN /\ win' = hide(win, label, TRUE)
                 /\ proc' = proc
                 /\ last' = Handled(kind, label, Unit, TRUE)
            ELSE /\ win' = win
                 /\ proc' = "panicked"
                 /\ last' = Handled(kind, label, Panic, FALSE)
       ELSE /\ win' = win
            /\ proc' = proc
            /\ last' = Handled(kind, label, Unit, FALSE)
    /\ UNCHANGED <<focus, trayMenu, log, health>>

WindowEventKinds == {"CloseRequested", "Focused", "Moved"}

\* .run(context): the host destroys a live window (the registry drops it)
HostDestroyWindow(label) ==
    /\ proc = "running"
    /\ get_window(label)
    /\ win' = [win EXCEPT ![label] = "Closed"]
    /\ focus' = IF focus = label THEN "none" ELSE focus
    /\ last' = Handled("Destroyed", label, Unit, FALSE)
    /\ UNCHANGED <<proc, trayMenu, log, health>>

----------------------------------------------------------------------------
(* Bridge commands of main.rs *)

\* format!("Hello, {}! You've been greeted from Rust!", name)
greet(name) == "Hello, " \o name \o "! You've been greeted from Rust!"

\* env!("CARGO_PKG_VERSION").to_string(): fixed at build time
get_app_version == "CARGO_PKG_VERSION"

\* shell::open(..).map_err(|e| format!("Failed to open URL: {}", e))
open_external_url(url, openOk) ==
    IF openOk THEN Ok(NoVal) ELSE Err("Failed to open URL")

\* match app_handle.get_window("main") {
\*     Some(window) => { window.show().map_err(..)?; window.set_focus().map_err(..)?; Ok(()) }
\*     None => Err("Main window not found".to_string()) }
show_main_window(showOk, focusOk) ==
    /\ win' = IF get_window("main") THEN show(win, "main", showOk) ELSE win
    /\ focus' = IF get_window("main") /\ showOk
                THEN set_focus(focus, "main", focusOk) ELSE focus
    /\ last' = Handled("invoke", "show_main_window",
                       IF ~get_window("main") THEN Err("Main window not found")
                       ELSE IF ~showOk THEN Err("Failed to show window")
                       ELSE IF ~focusOk THEN Err("Failed to focus window")
                       ELSE Ok(NoVal),
                       FALSE)
    /\ UNCHANGED <<proc, trayMenu, log, health>>

\* a command that touches no window: only its result is observable
Returns(cmd, ret) ==
    /\ last' = Handled("invoke", cmd, ret, FALSE)
    /\ UNCHANGED <<proc, win, focus, trayMenu, log, health>>

\* tauri::generate_handler![greet, open_external_url, get_app_version, show_main_window]
Registered == {"greet", "open_external_url", "get_app_version", "show_main_window"}

\* command names the web content may try to invoke
CommandNames ==
    Registered \cup {"get_backend_url", "check_backend_health", "get_api_config",
                     "close_splashscreen"}

Args == {"", "Axie", "https://flow.axiestudio.se"}

\* .invoke_handler(..): dispatch of an invoke message from the web content;
\* a name outside the generated handler is rejected by the host
invoke_handler(cmd, arg, r1, r2) ==
    /\ proc = "running"
    /\ CASE cmd \notin Registered -> Returns(cmd, Ret("rejected", "command not found"))
         [] cmd = "greet" -> Returns(cmd, Ok(greet(arg)))
         [] cmd = "open_external_url" -> Returns(cmd, open_external_url(arg, r1))
         [] cmd = "get_app_version" -> Returns(cmd, Ok(get_app_version))
         [] cmd = "show_main_window" -> show_main_window(r1, r2)

----------------------------------------------------------------------------
(* api.rs *)

BackendUrl == "https://flow.axiestudio.se"

\* pub async fn get_backend_url() -> Result<String, String>
get_backend_url == Ok(BackendUrl)

ApiTimeoutMs == 30000

\* pub async fn get_api_config() -> Result<ApiConfig, String>
get_api_config == Ok([backend_url |-> BackendUrl, timeout |-> ApiTimeoutMs])

\* .timeout(std::time::Duration::from_secs(10)): one deadline for the whole
\* request, from the start of the connect to the end of the response body
TimeoutSecs == 10

\* seconds the environment may take for one phase of the request
Durations == {0, 5, 10}

StatusCodes == {200, 204, 299, 304, 404, 500}

\* mutant of is_success: redirection codes pass as well
is_success_or_redirect(code) == code >= 200 /\ code < 400

\* StatusCode::is_success(): 200..=299
is_success(code) == code >= 200 /\ code < 300

\* response bodies: not JSON at all, or a JSON object whose "status" member
\* is missing, a number, or a string
StatusStrings == {"ok", "down"}

Bodies ==
    {[json |-> FALSE, status |-> "<none>"]}
    \cup [json : {TRUE}, status : {"<missing>", "<number>"} \cup StatusStrings]

\* #[derive(Deserialize)] struct HealthResponse { status: String } applied by
\* response.json::<HealthResponse>(): Some(value) or a decode error
DecodesAsHealthResponse(body) == body.json /\ body.status \in StatusStrings

HealthResponse(body) == [status |-> body.status]

NoHealth == [status |-> "<none>"]

HRes(kind, msg, code, value) ==
    [kind |-> kind, msg |-> msg, code |-> code, value |-> value]

NoResult == HRes("none", NoVal, 0, NoHealth)

ErrConnect == HRes("Err", "Failed to connect to backend", 0, NoHealth)

ErrStatus(code) ==
    HRes("Err", "Backend health check failed with status", code, NoHealth)

ErrParse == HRes("Err", "Failed to parse health response", 0, NoHealth)

OkHealth(value) == HRes("Ok", NoVal, 0, value)

\* one invocation: where it is suspended, the seconds spent, what the network
\* delivered (conn, status, body), the phase the deadline passed in, the result
Slot(pc, elapsed, conn, status, body, expired, result) ==
    [pc |-> pc, elapsed |-> elapsed, conn |-> conn, status |-> status,
     body |-> body, expired |-> expired, result |-> result]

NoBody == [json |-> FALSE, status |-> "<unread>"]

IdleSlot == Slot("idle", 0, "none", 0, NoBody, "none", NoResult)

\* the request deadline passes during a phase that takes d more seconds
Expires(slot, d) == slot.elapsed + d >= TimeoutSecs

Elapse(slot, d) ==
    IF Expires(slot, d) THEN TimeoutSecs ELSE slot.elapsed + d

\* let client = reqwest::Client::new();
\* Client::new() is documented to panic when the TLS backend cannot be
\* initialised or the resolver cannot load the system configuration.
ClientNew(slot, clientOk) ==
    IF clientOk
    THEN [slot EXCEPT !.pc = "connecting"]
    ELSE [slot EXCEPT !.pc = "panicked"]

\* client.get(..).timeout(..).send().await, first half: the connection.
\* A refused connection or an expired deadline makes send() return Err(e):
\*     Err(e) => Err(format!("Failed to connect to backend: {}", e))
SendConnect(slot, connected, d) ==
    IF Expires(slot, d)
    THEN [slot EXCEPT !.pc = "done", !.elapsed = Elapse(slot, d),
                      !.expired = "connect", !.result = ErrConnect]
    ELSE IF ~connected
    THEN [slot EXCEPT !.pc = "done", !.elapsed = Elapse(slot, d),
                      !.conn = "refused", !.result = ErrConnect]
    ELSE [slot EXCEPT !.pc = "awaiting", !.elapsed = Elapse(slot, d),
                      !.conn = "connected"]

\* send().await, second half: the response head arrives (or the deadline
\* passes first, and send() returns Err(e)); then
\*     Ok(response) => if response.status().is_success() { .. }
\*                     else { Err(format!("Backend health check failed with status: {}", ..)) }
SendStatus(slot, code, d) ==
    IF Expires(slot, d)
    THEN [slot EXCEPT !.pc = "done", !.elapsed = Elapse(slot, d),
                      !.expired = "status", !.result = ErrConnect]
    ELSE IF is_success(code)
    THEN [slot EXCEPT !.pc = "reading", !.elapsed = Elapse(slot, d), !.status = code]
    ELSE [slot EXCEPT !.pc = "done", !.elapsed = Elapse(slot, d), !.status = code,
                      !.result = ErrStatus(code)]

\* match response.json::<HealthResponse>().await {
\*     Ok(health) => Ok(health),
\*     Err(e) => Err(format!("Failed to parse health response: {}", e)) }
\* json() reads the body to its end under the same deadline and then decodes
\* it; an expired deadline is one of the errors json() returns.
ReadJson(slot, body, d) ==
    IF Expires(slot, d)
    THEN [slot EXCEPT !.pc = "done", !.elapsed = Elapse(slot, d),
                      !.expired = "body", !.result = ErrParse]
    ELSE IF DecodesAsHealthResponse(body)
    THEN [slot EXCEPT !.pc = "done", !.elapsed = Elapse(slot, d), !.body = body,
                      !.result = OkHealth(HealthResponse(body))]
    ELSE [slot EXCEPT !.pc = "done", !.elapsed = Elapse(slot, d), !.body = body,
                      !.result = ErrParse]

\* mutant of HealthStep: the invocations share one result cell
HealthStepSharedResult(i, pc, next) ==
    /\ health[i].pc = pc
    /\ health' = [j \in DOMAIN health |->
                    IF j = i THEN next ELSE [health[j] EXCEPT !.result = next.result]]
    /\ UNCHANGED lifecycleVars

HealthStep(i, pc, next) ==
    /\ health[i].pc = pc
    /\ health' = [health EXCEPT ![i] = next]
    /\ UNCHANGED lifecycleVars

\* pub async fn check_backend_health(): the invocation in slot i runs to its
\* next suspension point (or to its return)
check_backend_health(i) ==
    \/ \E ok \in BOOLEAN :
          HealthStep(i, "idle", ClientNew(health[i], ok))
    \/ \E ok \in BOOLEAN : \E d \in Durations :
          HealthStep(i, "connecting", SendConnect(health[i], ok, d))
    \/ \E code \in StatusCodes : \E d \in Durations :
          HealthStep(i, "awaiting", SendStatus(health[i], code, d))
    \/ \E body \in Bodies : \E d \in Durations :
          HealthStep(i, "reading", ReadJson(health[i], body, d))

\* get_backend_url / get_api_config called directly
ApiConstant(cmd) ==
    /\ last' = Handled("call", cmd,
                       IF cmd = "get_backend_url" THEN get_backend_url
                       ELSE get_api_config, FALSE)
    /\ UNCHANGED <<proc, win, focus, trayMenu, log, health>>

----------------------------------------------------------------------------
(* Initial state: the builder has attached the tray; the windows the       *)
(* configuration declares are created but not yet shown.                   *)

MaxHealth == 2

Slots == 1..MaxHealth

\* the shape of the state
TypeOK ==
    /\ proc \in {"starting", "running", "exited", "panicked"}
    /\ win \in [WindowNames -> WindowStates]
    /\ focus \in WindowNames \cup {"none"}
    /\ trayMenu = create_system_tray
    /\ last.ret.kind \in {"unit", "Ok", "Err", "panic", "exit", "rejected"}
    /\ last.prevented \in BOOLEAN
    /\ log \in Seq(STRING)
    /\ \A i \in Slots :
          /\ health[i].pc \in {"idle", "connecting", "awaiting", "reading",
                               "done", "panicked"}
          /\ health[i].elapsed \in 0..TimeoutSecs
          /\ health[i].result.kind \in {"none", "Ok", "Err"}

Init ==
    /\ proc = "starting"
    /\ win \in [WindowNames -> {"Absent", "Uninitialized"}]
    /\ focus = "none"
    /\ trayMenu = create_system_tray
    /\ last = Handled("none", NoVal, Unit, FALSE)
    /\ log = <<>>
    /\ health = [i \in Slots |-> IdleSlot]

Next ==
    \/ \E macos, styleOk, showOk \in BOOLEAN : setup(macos, styleOk, showOk)
    \/ \E event \in TrayEvents : \E showOk, focusOk, hideOk \in BOOLEAN :
          handle_system_tray_event(event, showOk, focusOk, hideOk)
    \/ \E label \in WindowNames : \E kind \in WindowEventKinds : \E hideOk \in BOOLEAN :
          on_window_event(label, kind, hideOk)
    \/ \E label \in WindowNames : HostDestroyWindow(label)
    \/ \E cmd \in CommandNames : \E arg \in Args : \E r1, r2 \in BOOLEAN :
          invoke_handler(cmd, arg, r1, r2)

Spec == Init /\ [][Next]_vars

\* the functions of api.rs applied on their own
ApiInit ==
    /\ Init
    /\ win = [w \in WindowNames |-> "Uninitialized"]

ApiNext ==
    \/ \E i \in Slots : check_backend_health(i)
    \/ \E cmd \in {"get_backend_url", "get_api_config"} : ApiConstant(cmd)

ApiSpec == ApiInit /\ [][ApiNext]_vars

\* responses the backend gives while the UI loop runs beside the checks: it
\* answers at once or not before the deadline, with 200 or 500, and with a
\* health document or a body that is not JSON
ConcResponse(slot) ==
    /\ slot.elapsed \in {0, TimeoutSecs}
    /\ slot.status \in {0, 200, 500}
    /\ slot.body \in {NoBody, [json |-> TRUE, status |-> "ok"],
                      [json |-> FALSE, status |-> "<none>"]}

\* the event loop of main together with check_backend_health futures that
\* run on the async runtime, interleaved in any order
ConcInit ==
    /\ Init
    /\ win = [w \in WindowNames |-> "Uninitialized"]

ConcNext ==
    \/ \E macos, styleOk, showOk \in BOOLEAN : setup(macos, styleOk, showOk)
    \/ \E event \in TrayEvents : \E showOk, focusOk, hideOk \in BOOLEAN :
          handle_system_tray_event(event, showOk, focusOk, hideOk)
    \/ \E label \in WindowNames : \E hideOk \in BOOLEAN :
          on_window_event(label, "CloseRequested", hideOk)
    \/ \E label \in WindowNames : HostDestroyWindow(label)
    \/ \E i \in Slots : check_backend_health(i) /\ ConcResponse(health'[i])

ConcSpec == ConcInit /\ [][ConcNext]_vars

----------------------------------------------------------------------------
(* Properties *)

IsQuitClick(h) == h.ev = "MenuItemClick" /\ h.arg = "quit"

IsTrayShow(h) == h.ev = "LeftClick" \/ (h.ev = "MenuItemClick" /\ h.arg = "show")

IsTrayHide(h) == h.ev = "MenuItemClick" /\ h.arg = "hide"

QuitClick == [kind |-> "MenuItemClick", id |-> "quit"]

\* C1: after a CloseRequested event on the main window has been handled, the
\* main window is Hidden and the process is still running.
C1_CloseToTray ==
    (last.ev = "CloseRequested" /\ last.arg = "main")
        => (win["main"] = "Hidden" /\ proc = "running")

\* C2: the process is no longer alive only after the tray menu-click "quit":
\* no other handled event (setup, CloseRequested, tray clicks, commands)
\* ends it.
C2_OnlyQuitTerminates ==
    proc \notin {"starting", "running"} => IsQuitClick(last)

\* C3: the tray menu-click "quit" can be handled in every running state, the
\* step that handles it ends with the process exited, and no event is
\* handled from an exited process.
C3_QuitTerminates ==
    /\ [](proc = "running" =>
             ENABLED handle_system_tray_event(QuitClick, TRUE, TRUE, TRUE))
    /\ [][(IsQuitClick(last') => proc' = "exited") /\ proc # "exited"]_vars

\* C3 witness: quit was handled, and the process exited, with no main window
C3_Witness ==
    proc = "exited" /\ IsQuitClick(last) /\ ~get_window("main")

\* C4: a tray left-click and the tray menu-clicks "show" and "hide" change
\* nothing but the visibility and focus of the main window: every other
\* window, the process, the tray and the log are as before, the main window
\* stays in the registry, and with no main window nothing changes at all.
C4_TrayTouchesOnlyMain ==
    [][(IsTrayShow(last') \/ IsTrayHide(last')) =>
          /\ \A l \in WindowNames \ {"main"} : win'[l] = win[l]
          /\ proc' = proc /\ trayMenu' = trayMenu /\ log' = log
          /\ focus' \in {focus, "main"}
          /\ get_window("main") => win'["main"] \in LiveStates
          /\ ~get_window("main") => (win' = win /\ focus' = focus)]_vars

\* C4 witness: a tray "hide" was handled and hid the main window while the
\* splashscreen window, live beside it, kept its state
C4_Witness ==
    IsTrayHide(last) /\ win["main"] = "Hidden" /\ win["splashscreen"] = "Uninitialized"

\* C5: once a splash-close request has been handled, the main window is
\* Shown only if the splashscreen window is no longer live (the splash is
\* closed before, or together with, the showing of main).
C5_SplashClosedBeforeMainShown ==
    (last.ev = "invoke" /\ last.arg = "close_splashscreen")
        => (win["main"] = "Shown" => ~get_window("splashscreen"))

\* C6: with no live main window, show_main_window returns the error
\* "Main window not found" and changes no window; a tray left-click or tray
\* menu-click "show"/"hide" in the same condition returns no error and is
\* logged.
C6_NotFoundReturnedOrLogged ==
    [][/\ (last'.ev = "invoke" /\ last'.arg = "show_main_window"
              /\ ~get_window("main"))
          => (last'.ret = Err("Main window not found")
                /\ win' = win /\ focus' = focus)
       /\ ((IsTrayShow(last') \/ IsTrayHide(last')) /\ ~get_window("main"))
          => (last'.ret.kind # "Err" /\ Len(log') = Len(log) + 1)]_vars

\* C7: a host-originated show or hide (setup's show, the tray's show and
\* hide) of a window that is not live neither fails nor crashes the
\* process, logs an event, and leaves every window as it was.
C7_AbsentWindowLoggedNoCrash ==
    [][((last'.ev = "setup" \/ IsTrayShow(last') \/ IsTrayHide(last'))
            /\ ~get_window("main"))
          => /\ proc' # "panicked"
             /\ last'.ret.kind \notin {"Err", "panic"}
             /\ Len(log') > Len(log)
             /\ win' = win]_vars

\* C8: a finished check_backend_health returns the decoded HealthResponse
\* exactly when the request got a response, its status code is in 200..299
\* and its body was read and decodes; otherwise it returns the first that
\* applies of: connection failure, non-success status (with the code),
\* unparseable body.
C8_HealthResult ==
    \A i \in Slots :
        health[i].pc = "done" =>
            LET s == health[i]
                responded == s.conn = "connected" /\ s.expired \notin {"connect", "status"}
                success == s.status \in 200..299
                decoded == /\ s.expired # "body"
                           /\ s.body.json
                           /\ s.body.status \in StatusStrings
            IN  s.result =
                    IF ~responded THEN ErrConnect
                    ELSE IF ~success THEN ErrStatus(s.status)
                    ELSE IF ~decoded THEN ErrParse
                    ELSE OkHealth([status |-> s.body.status])

\* C8 witness: one check returned {status: "ok"}, another failed on HTTP 500
C8_Witness ==
    \E i, j \in Slots :
        /\ health[i].pc = "done" /\ health[i].result = OkHealth([status |-> "ok"])
        /\ health[j].pc = "done" /\ health[j].result = ErrStatus(500)

\* C9: whenever the 10-second deadline passes during a check_backend_health
\* request (connecting, awaiting the status, or reading the body), the
\* check returns the connection-failure error.
C9_ExpiryIsConnectionFailure ==
    \A i \in Slots :
        (health[i].pc = "done" /\ health[i].expired # "none")
            => health[i].result = ErrConnect

\* C10: no bridge command handler panics or ends the process, and a handler
\* returns Ok only when every call it made succeeded.
C10_HandlersNeverPanic ==
    /\ \A i \in Slots : health[i].pc # "panicked"
    /\ last.ev \in {"invoke", "call"} =>
          (last.ret.kind \notin {"panic", "exit"} /\ proc = "running")

\* the bridge commands the hosted web content relies on
BridgeSurface ==
    {"get_app_version", "greet", "open_external_url", "show_main_window",
     "check_backend_health", "get_backend_url", "get_api_config"}

\* C11: an invoke message is accepted by the invoke handler exactly when it
\* names one of the seven bridge commands.
C11_BridgeSurfaceRegistered ==
    last.ev = "invoke" => (last.ret.kind # "rejected" <=> last.arg \in BridgeSurface)

\* C12: in every state, before and after any event, the tray menu is the
\* sequence Show, Hide, separator, Quit with the item ids "show", "hide",
\* "quit".
C12_TrayMenuFixed ==
    /\ trayMenu = <<"show", "hide", "separator", "quit">>
    /\ {trayMenu[i] : i \in DOMAIN trayMenu} \ {"separator"} = {"show", "hide", "quit"}

\* C12 witness: tray and window events have been handled, the menu is as built
C12_Witness ==
    /\ proc = "running"
    /\ IsTrayHide(last)
    /\ win["main"] = "Hidden"
    /\ trayMenu = <<"show", "hide", "separator", "quit">>

\* C13: whenever a CloseRequested event on the main window has been handled,
\* the default close was vetoed (prevent_close was called), also when the
\* hide call failed.
C13_VetoAlwaysInEffect ==
    (last.ev = "CloseRequested" /\ last.arg = "main") => last.prevented

\* C15: the first step of the process is setup; when setup completes the
\* main window is Shown; the main window leaves Uninitialized only through
\* setup and only to Shown; and no tray event, window event or command is
\* handled before setup has completed.
C15_ShownAtStartup ==
    [][/\ proc = "starting" => last'.ev = "setup"
       /\ (proc = "starting" /\ proc' = "running") => win'["main"] = "Shown"
       /\ (win["main"] = "Uninitialized" /\ win'["main"] # "Uninitialized")
             => (win'["main"] = "Shown" /\ last'.ev = "setup")
       /\ last'.ev # "setup" => proc = "running"]_vars

\* C15 witness: setup has just completed and the main window is Shown
C15_Witness ==
    last = Handled("setup", "main", Ok(NoVal), FALSE)
        /\ proc = "running" /\ win["main"] = "Shown"

\* C18: a CloseRequested event handled on any window is vetoed and leaves
\* that window Hidden, with the process running; no window is Closed by it.
C18_CloseRequestHidesAnyWindow ==
    \A l \in WindowNames :
        (last.ev = "CloseRequested" /\ last.arg = l)
            => (last.prevented /\ win[l] = "Hidden" /\ proc = "running")

IsOtherTrayEvent(h) ==
    \/ h.ev \in {"RightClick", "DoubleClick"}
    \/ h.ev = "MenuItemClick" /\ h.arg \notin {"quit", "show", "hide"}

\* C19: a tray event that is neither a left-click nor a menu-click on "quit",
\* "show" or "hide" leaves every window, the focus, the process, the tray and
\* the log as they were.
C19_OtherTrayEventsChangeNothing ==
    [][IsOtherTrayEvent(last') =>
          (win' = win /\ focus' = focus /\ proc' = proc
             /\ trayMenu' = trayMenu /\ log' = log /\ health' = health)]_vars

\* C19 witness: a right-click was handled while the main window was hidden
C19_Witness ==
    last.ev = "RightClick" /\ proc = "running" /\ win["main"] = "Hidden"

IsShowCommand(h) == h.ev = "invoke" /\ h.arg = "show_main_window"

IsHideOfMain(h) ==
    IsTrayHide(h) \/ (h.ev = "CloseRequested" /\ h.arg = "main" /\ h.ret = Unit)

ShowEvents ==
    {[kind |-> "LeftClick", id |-> NoVal], [kind |-> "MenuItemClick", id |-> "show"]}

\* C14 as stated: every tray left-click, tray menu-click "show" or
\* show_main_window handled while the main window is Hidden finds the window
\* and leaves it Shown with the focus on it.
C14_ReshowAlwaysShows ==
    [][(win["main"] = "Hidden" /\ (IsTrayShow(last') \/ IsShowCommand(last')))
          => /\ last'.ret # Err("Main window not found")
             /\ win'["main"] = "Shown"
             /\ focus' = "main"]_vars

\* C14 as amended: hiding the main window (tray "hide", CloseRequested) keeps
\* it in the registry; a left-click, "show" click or show_main_window handled
\* while it is Hidden never reports it missing, leaves it Shown or Hidden,
\* and leaves it Shown with the focus on it whenever the host's show and
\* set_focus calls succeed; such a step is possible in every running state
\* with a Hidden main window.
C14_HiddenStaysResident ==
    /\ []((proc = "running" /\ win["main"] = "Hidden") =>
            /\ \A e \in ShowEvents :
                  ENABLED (/\ handle_system_tray_event(e, TRUE, TRUE, TRUE)
                           /\ win'["main"] = "Shown" /\ focus' = "main")
            /\ ENABLED (/\ invoke_handler("show_main_window", "", TRUE, TRUE)
                        /\ win'["main"] = "Shown" /\ focus' = "main"))
    /\ [][/\ (get_window("main") /\ IsHideOfMain(last'))
               => win'["main"] \in LiveStates
          /\ (win["main"] = "Hidden" /\ (IsTrayShow(last') \/ IsShowCommand(last')))
               => /\ last'.ret # Err("Main window not found")
                  /\ win'["main"] \in {"Shown", "Hidden"}
          /\ \A showOk, focusOk \in BOOLEAN :
               (/\ win["main"] = "Hidden"
                /\ \/ \E e \in ShowEvents :
                         handle_system_tray_event(e, showOk, focusOk, TRUE)
                   \/ invoke_handler("show_main_window", "", showOk, focusOk))
               => /\ showOk <=> win'["main"] = "Shown"
                  /\ (showOk /\ focusOk) => focus' = "main"]_vars

\* C14 witness: a tray show has been handled on a resident main window, which
\* is Shown with the focus on it
C14_Witness ==
    /\ proc = "running"
    /\ IsTrayShow(last)
    /\ win["main"] = "Shown" /\ focus = "main"

IsRetriable(h) ==
    IsTrayShow(h) \/ IsShowCommand(h) \/ IsTrayHide(h) \/ h.ev = "CloseRequested"

SameWindowsAndProcess == win' = win /\ focus' = focus /\ proc' = proc

\* C17 as stated: when the operation handled is the one handled just before
\* (tray show or left-click, show_main_window, tray hide, CloseRequested on
\* the same window), the windows, the focus and the process are as the first
\* execution left them.
C17_RepeatChangesNothing ==
    [][(IsRetriable(last) /\ last'.ev = last.ev /\ last'.arg = last.arg)
          => SameWindowsAndProcess]_vars

\* what an execution with the given host results establishes
TrayShowDone(showOk, focusOk) ==
    get_window("main") =>
        ((showOk => win["main"] = "Shown") /\ (focusOk => focus = "main"))

ShowCommandDone(showOk, focusOk) ==
    get_window("main") =>
        ((showOk => win["main"] = "Shown") /\ ((showOk /\ focusOk) => focus = "main"))

TrayHideDone(hideOk) ==
    get_window("main") => (hideOk => win["main"] = "Hidden")

CloseRequestedDone(l, hideOk) ==
    IF hideOk THEN win[l] = "Hidden" /\ proc = "running" ELSE proc = "panicked"

HideClick == [kind |-> "MenuItemClick", id |-> "hide"]

\* C17 as amended: for each operation but quit and each result of its host
\* calls, an execution establishes its effect, and an execution from a state
\* where that effect is established changes no window, focus or process
\* state: executed twice in a row with the same host results it leaves what
\* one execution leaves.
C17_IdempotentUnderSameHostResults ==
    [][\A showOk, focusOk, hideOk \in BOOLEAN :
         /\ \A e \in ShowEvents :
               handle_system_tray_event(e, showOk, focusOk, hideOk)
                  => /\ TrayShowDone(showOk, focusOk)'
                     /\ TrayShowDone(showOk, focusOk) => SameWindowsAndProcess
         /\ invoke_handler("show_main_window", "", showOk, focusOk)
               => /\ ShowCommandDone(showOk, focusOk)'
                  /\ ShowCommandDone(showOk, focusOk) => SameWindowsAndProcess
         /\ handle_system_tray_event(HideClick, showOk, focusOk, hideOk)
               => /\ TrayHideDone(hideOk)'
                  /\ TrayHideDone(hideOk) => SameWindowsAndProcess
         /\ \A l \in WindowNames :
               on_window_event(l, "CloseRequested", hideOk)
                  => /\ CloseRequestedDone(l, hideOk)'
                     /\ CloseRequestedDone(l, hideOk) => SameWindowsAndProcess]_vars

\* C17 witness: a tray "hide" was handled on a main window that holds the
\* focus and is now Hidden; a second "hide" finds its effect established
C17_Witness ==
    /\ proc = "running"
    /\ IsTrayHide(last)
    /\ win["main"] = "Hidden" /\ focus = "main"
    /\ TrayHideDone(TRUE)

\* what a finished request returns, from what the network delivered to it
OwnResult(s) ==
    IF ~(s.conn = "connected" /\ s.expired \notin {"connect", "status"}) THEN ErrConnect
    ELSE IF s.status \notin 200..299 THEN ErrStatus(s.status)
    ELSE IF s.expired = "body" \/ ~s.body.json \/ s.body.status \notin StatusStrings
         THEN ErrParse
    ELSE OkHealth([status |-> s.body.status])

\* C16: with any number of health checks pending, every tray event and every
\* close request on a live window can be handled and has its effect, and
\* leaves the checks as they are; a step of a health check changes no window,
\* focus, process or tray state and no other check; and every finished check
\* returns what its own response determines, in every interleaving.
C16_HealthChecksIndependent ==
    /\ [](proc = "running" =>
            /\ \A e \in TrayEvents :
                  ENABLED handle_system_tray_event(e, TRUE, TRUE, TRUE)
            /\ \A l \in WindowNames :
                  get_window(l) => ENABLED on_window_event(l, "CloseRequested", TRUE))
    /\ [](\A i \in Slots :
            health[i].pc = "done" => health[i].result = OwnResult(health[i]))
    /\ [][/\ lifecycleVars' # lifecycleVars => health' = health
          /\ \A i \in Slots :
                health'[i] # health[i] =>
                    /\ lifecycleVars' = lifecycleVars
                    /\ \A j \in Slots \ {i} : health'[j] = health[j]
          /\ IsTrayShow(last') =>
                /\ win' \in {win, [win EXCEPT !["main"] = "Shown"]}
                /\ focus' \in {focus, "main"}
                /\ proc' = proc
          /\ IsTrayHide(last') =>
                /\ win' \in {win, [win EXCEPT !["main"] = "Hidden"]}
                /\ focus' = focus /\ proc' = proc
          /\ (last'.ev = "CloseRequested" /\ last'.ret = Unit) =>
                /\ win' = [win EXCEPT ![last'.arg] = "Hidden"]
                /\ focus' = focus /\ proc' = proc]_vars

\* C16 witness: a close request has hidden the main window while one health
\* check is still waiting for its response and another has returned Ok
C16_Witness ==
    /\ proc = "running"
    /\ last.ev = "CloseRequested" /\ last.arg = "main" /\ win["main"] = "Hidden"
    /\ \E i, j \in Slots :
          /\ health[i].pc \in {"connecting", "awaiting", "reading"}
          /\ health[j].pc = "done" /\ health[j].result.kind = "Ok"

====
